---- MODULE Spec2Model ----
(***************************************************************************)
(* Task dispatch and agent accounting of the AgentHub marketplace server   *)
(* (agenthub_server/server.py, agenthub_server/database.py), the port pool *)
(* of its ACPServerManager (agenthub_server/acp_manager.py) and the        *)
(* AgentBuilder of the SDK (agenthub/agent_builder.py, registry.py).       *)
(*                                                                         *)
(* The database is shared by every server process started on the same      *)
(* database_url (serve --workers, or several servers on one database), so  *)
(* the background executions of different tasks interleave at the          *)
(* granularity of database statements.                                     *)
(***************************************************************************)
EXTENDS Integers, Sequences, FiniteSets, TLC

VARIABLES
    db_type,            \* DatabaseManager.db_type: "sqlite" or "postgresql"
    agents,             \* table agents: sequence of rows, id = position
    tasks,              \* table tasks: sequence of rows, id = position
    registered_agents,  \* server.py global registered_agents: its entries
    pc,                 \* position of execute_task(t) for every task row
    exc,                \* exception in flight in execute_task(t), or NULL
    frame,              \* execute_task(t): its task_request and the timeout
                        \* of the HTTP client it has created, or NULL
    snap,               \* row fetched by the SELECT of update_agent_stats
    faults,             \* Repository calls that have raised so far
    response,           \* what the handler that made the last step returned
    recorded,           \* per agent: outcomes folded in by update_agent_stats
    clock,              \* datetime.now() / CURRENT_TIMESTAMP, in ticks
    builder,            \* an AgentBuilder of the SDK and the registration
                        \* requests register_agent has sent for it
    manager,            \* the ACPServerManager: active_servers, used_ports
    auth                \* require_auth, the api keys of table users, and the
                        \* request get_current_user admitted last

vars == <<db_type, agents, tasks, registered_agents, pc, exc, frame, snap,
          faults, response, recorded, clock, builder, manager, auth>>

----------------------------------------------------------------------------
(* Bounds of the model *)

MaxAgents == 1
MaxTasks == 2
MaxBatch == 2
MaxFaults == 1
MaxExecTime == 30
MaxPrice == 60
MaxCalls == 3
MaxClock == 3
MaxMinutes == 1
MaxDirectory == 3
MaxLimit == 2
MaxSent == 1
MaxPorts == 3

----------------------------------------------------------------------------
(* Nullable values: NULL is SQL NULL / Python None, Some(v) a present v *)

NULL == <<>>
Some(v) == <<v>>
Val(o) == o[1]

(* Exact rationals <<numerator, denominator>>, denominator > 0, reduced *)

RECURSIVE GCD(_, _)
GCD(a, b) == IF b = 0 THEN a ELSE GCD(b, a % b)

Abs(n) == IF n < 0 THEN 0 - n ELSE n

Rat(n, d) ==
    LET g == GCD(Abs(n), Abs(d))
        s == IF d < 0 THEN 0 - 1 ELSE 1
    IN  <<(s * n) \div g, (s * d) \div g>>

Int2Rat(n) == <<n, 1>>
RAdd(x, y) == Rat(x[1] * y[2] + y[1] * x[2], x[2] * y[2])
RMul(x, y) == Rat(x[1] * y[1], x[2] * y[2])
RDiv(x, y) == Rat(x[1] * y[2], x[2] * y[1])
RLeq(x, y) == x[1] * y[2] <= y[1] * x[2]

(* Python values found in the pricing JSON and returned as a cost: a number,
   a string, None, a missing key, or the marker of a raised exception *)

Num(r) == [kind |-> "number", num |-> r, text |-> ""]
Str(v) == [kind |-> "text", num |-> Int2Rat(0), text |-> v]
None == [kind |-> "none", num |-> Int2Rat(0), text |-> ""]
Absent == [kind |-> "absent", num |-> Int2Rat(0), text |-> ""]
Raised == [kind |-> "raised", num |-> Int2Rat(0), text |-> ""]

\* str * int
RECURSIVE Repeat(_, _)
Repeat(v, n) ==
    IF n = 0 THEN ""
    ELSE LET half == Repeat(v, n \div 2)
         IN  IF n % 2 = 0 THEN half \o half ELSE half \o half \o v

\* x * y for a float y: TypeError unless x is a number
MulFloat(x, y) ==
    IF x.kind = "number" THEN Num(RMul(x.num, y)) ELSE Raised

\* x * n for an int n: a number, a repeated string, or TypeError
MulInt(x, n) ==
    CASE x.kind = "number" -> Num(RMul(x.num, Int2Rat(n)))
      [] x.kind = "text" -> Str(Repeat(x.text, n))
      [] OTHER -> Raised

----------------------------------------------------------------------------
(* Input domains *)

ExecTimes == {0, MaxExecTime}

PricingTypes == {"fixed", "per_request", "per_token", "per_minute"}

\* PricingModel.price values, ge=0
Prices == {0, 1, MaxPrice}

\* the value under "pricing" in the metadata JSON: a dict (dict = TRUE) with
\* an optional key type and a value under price, or some other value
Pricing(type, price) ==
    Some([dict |-> TRUE, type |-> type, price |-> price, currency |-> "USD"])
NotADict ==
    Some([dict |-> FALSE, type |-> NULL, price |-> Absent, currency |-> ""])

\* AgentMetadata.pricing as validated by PricingModel
PricingModels ==
    {Pricing(Some(ty), Num(Int2Rat(p))) : ty \in PricingTypes, p \in Prices}

\* the pricing of the agents that get registered: none, or a fee that
\* depends on the execution time
Pricings ==
    {NULL} \cup {p \in PricingModels : /\ Val(p).type = Some("per_minute")
                                       /\ Val(p).price = Num(Int2Rat(MaxPrice))}

\* pricing values that PricingModel would not accept
MalformedPricings ==
    {NotADict} \cup
    {Pricing(ty, price) : ty \in {Some(x) : x \in PricingTypes},
                          price \in {Str("abc"), None}}

\* AgentMetadata: name and version are sequences of characters
Metadata(name, category, version, pricing) ==
    [name |-> name, category |-> category, version |-> version,
     pricing |-> pricing]

\* version strings: well formed (two of them), empty, two parts, four
\* parts, a part that is no number, an empty part
Versions ==
    { <<"1", ".", "0", ".", "0">>, <<"2", ".", "1", ".", "3">>, <<>>,
      <<"1", ".", "0">>, <<"1", ".", "0", ".", "0", ".", "0">>,
      <<"1", ".", "x", ".", "0">>, <<"1", ".", ".", "0">> }

Names == { <<>>, <<"a">>, <<"a", "b">> }

Categories == {"general", "nlp"}

\* the metadata of the agents registered for dispatch, one per pricing
Metadatas(pricings) ==
    {Metadata(<<"a">>, "general", <<"1", ".", "0", ".", "0">>, p) : p \in pricings}

\* endpoint_url values handed to register_agent_endpoint
Urls == {"http://agent"}

\* JSON bodies an agent can return on a 2xx response
Bodies == {"null", "0", "[]", "{}", "{\"ok\":1}"}

\* Python truthiness of the parsed body (None, 0, [] and {} are falsy)
Truthy(b) == b \notin {"null", "0", "[]", "{}"}

\* ways the HTTP call of execute_task can fail
HttpFailures == {"network error", "http status error", "timeout", "invalid json"}

\* a step of a background execution returns nothing to a caller
NoResponse == [op |-> "none"]

\* an agent id with no agent row ("missing-1")
MissingId == 0

\* reliability_score REAL DEFAULT 100.0
DefaultScore == 100

----------------------------------------------------------------------------
(* Repository: DatabaseManager *)

\* _init_sqlite / _init_postgresql: column defaults of a new agents row
NewAgentRow(agent_metadata, endpoint_url) ==
    [ name                  |-> agent_metadata.name,
      category              |-> agent_metadata.category,
      version               |-> agent_metadata.version,
      pricing               |-> agent_metadata.pricing,
      endpoint_url          |-> endpoint_url,
      status                |-> "active",
      reliability_score     |-> DefaultScore,
      total_tasks           |-> 0,
      success_rate          |-> Int2Rat(1),
      average_response_time |-> Int2Rat(0) ]

\* register_agent with an INSERT that leaves the metadata column NULL
db_register_agent_bare(agent_metadata, endpoint_url) ==
    Append(agents, NewAgentRow([agent_metadata EXCEPT !.pricing = NULL],
                               endpoint_url))

\* DatabaseManager.register_agent: INSERT INTO agents, returns the new id
db_register_agent(agent_metadata, endpoint_url) ==
    Append(agents, NewAgentRow(agent_metadata, endpoint_url))

\* SELECT * FROM agents WHERE id = ? on the table tbl, with the metadata
\* JSON decoded: the row with its id, or NULL
SelectAgent(tbl, agent_id) ==
    IF agent_id \in DOMAIN tbl
    THEN Some([id |-> agent_id] @@ tbl[agent_id])
    ELSE NULL

\* DatabaseManager.get_agent
get_agent(agent_id) == SelectAgent(agents, agent_id)

\* DatabaseManager.create_task: INSERT INTO tasks, status defaults to pending
db_create_task(tbl, agent_id) ==
    Append(tbl, [ agent_id       |-> agent_id,
                  status         |-> "pending",
                  result         |-> NULL,
                  error          |-> NULL,
                  execution_time |-> NULL,
                  cost           |-> NULL,
                  completed_at   |-> NULL ])

\* json.dumps(result) if result else None
DumpResult(result) ==
    IF result # NULL /\ Truthy(Val(result)) THEN result ELSE NULL

Terminal == {"completed", "failed"}

\* the completed_at written by update_task: datetime.now() or None on SQLite,
\* CASE WHEN status IN ('completed', 'failed') THEN CURRENT_TIMESTAMP ELSE
\* completed_at END on PostgreSQL
CompletedAt(old, status) ==
    IF status \in Terminal THEN Some(clock)
    ELSE IF db_type = "sqlite" THEN NULL
    ELSE old

\* the clock after an update_task that read it into the row
Tick(status) == IF status \in Terminal THEN clock + 1 ELSE clock

\* update_task as an UPDATE that assigns only the columns it is given
update_task_keep(task_id, status, result, error, execution_time, cost) ==
    [tasks EXCEPT ![task_id] =
        [@ EXCEPT !.status         = status,
                  !.result         = IF result = NULL THEN @ ELSE DumpResult(result),
                  !.error          = IF error = NULL THEN @ ELSE error,
                  !.execution_time = IF execution_time = NULL THEN @ ELSE execution_time,
                  !.cost           = IF cost = NULL THEN @ ELSE cost,
                  !.completed_at   = CompletedAt(@, status)]]

\* DatabaseManager.update_task: one UPDATE that assigns every column
update_task(task_id, status, result, error, execution_time, cost) ==
    [tasks EXCEPT ![task_id] =
        [@ EXCEPT !.status         = status,
                  !.result         = DumpResult(result),
                  !.error          = error,
                  !.execution_time = execution_time,
                  !.cost           = cost,
                  !.completed_at   = CompletedAt(@, status)]]

\* the columns update_agent_stats reads
StatsOf(row) ==
    [ total_tasks           |-> row.total_tasks,
      success_rate          |-> row.success_rate,
      average_response_time |-> row.average_response_time ]

\* update_agent_stats with running means that drop the weight total_tasks
update_agent_stats_unweighted(cur, success, execution_time) ==
    LET new_total == cur.total_tasks + 1
    IN  [ total_tasks |-> new_total,
          success_rate |->
              RDiv(RAdd(cur.success_rate, Int2Rat(IF success THEN 1 ELSE 0)),
                   Int2Rat(new_total)),
          average_response_time |->
              RDiv(RAdd(cur.average_response_time, Int2Rat(execution_time)),
                   Int2Rat(new_total)) ]

\* DatabaseManager.update_agent_stats: the new statistics computed from the
\* statistics cur (the SELECTed row on SQLite, the row itself on PostgreSQL)
update_agent_stats(cur, success, execution_time) ==
    LET total_tasks == cur.total_tasks
        new_total   == total_tasks + 1
    IN  [ total_tasks |-> new_total,
          success_rate |->
              RDiv(RAdd(RMul(cur.success_rate, Int2Rat(total_tasks)),
                        Int2Rat(IF success THEN 1 ELSE 0)),
                   Int2Rat(new_total)),
          average_response_time |->
              RDiv(RAdd(RMul(cur.average_response_time, Int2Rat(total_tasks)),
                        Int2Rat(execution_time)),
                   Int2Rat(new_total)) ]

\* UPDATE agents SET total_tasks, success_rate, average_response_time
WriteStats(agent_id, new) ==
    [agents EXCEPT ![agent_id] =
        [@ EXCEPT !.total_tasks           = new.total_tasks,
                  !.success_rate          = new.success_rate,
                  !.average_response_time = new.average_response_time]]

\* history: one more outcome folded into the statistics of agent_id
Record(agent_id, success, execution_time) ==
    [recorded EXCEPT ![agent_id] =
        [ n    |-> @.n + 1,
          succ |-> @.succ + (IF success THEN 1 ELSE 0),
          sum  |-> @.sum + execution_time ]]

----------------------------------------------------------------------------
(* Pricing Calculator *)

\* calculate_task_cost charging per_minute pricing by the second
calculate_task_cost_seconds(agent_info, execution_time) ==
    LET pricing == agent_info.pricing
    IN  IF pricing = NULL \/ ~Val(pricing).dict
        THEN Num(Int2Rat(0))
        ELSE LET price == Val(pricing).price
             IN  IF Val(pricing).type = Some("per_minute")
                 THEN MulFloat(price, Int2Rat(execution_time))
                 ELSE price

\* AgentHubServer.calculate_task_cost: the value returned; an exception
\* raised inside the try block returns 0.0
calculate_task_cost(agent_info, execution_time) ==
    LET pricing == agent_info.pricing
    IN  IF pricing = NULL
        THEN Num(Int2Rat(0))
        ELSE IF ~Val(pricing).dict
        THEN Num(Int2Rat(0))
        ELSE LET pricing_type == IF Val(pricing).type = NULL THEN "per_request"
                                 ELSE Val(Val(pricing).type)
                 price == IF Val(pricing).price = Absent THEN Num(Int2Rat(0))
                          ELSE Val(pricing).price
                 cost ==
                    CASE pricing_type = "per_request" -> price
                      [] pricing_type = "per_minute" ->
                           MulFloat(price, RDiv(Int2Rat(execution_time), Int2Rat(60)))
                      [] pricing_type = "per_token" -> MulInt(price, 100)
                      [] OTHER -> price
             IN  IF cost = Raised THEN Num(Int2Rat(0)) ELSE cost

----------------------------------------------------------------------------
(* SDK: AgentBuilder (agenthub/agent_builder.py) and registry.register_agent *)

\* AgentBuilder.__init__; sent holds the registration requests posted for
\* the builder, has_endpoint and has_metadata record that a call of
\* endpoint() stored an entry and that a call of set_metadata() returned
NewBuilder ==
    [ endpoints       |-> {},
      metadata        |-> NULL,
      pending_pricing |-> NULL,
      sent            |-> <<>>,
      has_endpoint    |-> FALSE,
      has_metadata    |-> FALSE ]

Paths == {"/greet", "/status"}

\* values of the method argument of endpoint()
Methods == {"POST", "get", "PATCH"}

\* method.upper()
Upper(method) == IF method = "get" THEN "GET" ELSE method

\* the methods endpoint() adds a route for
Supported == {"GET", "POST", "PUT", "DELETE"}

\* self.endpoints[path] = {...}: a dict has one entry per key
Put(endpoints, path, method) ==
    {e \in endpoints : e.path # path} \cup {[path |-> path, method |-> method]}

\* the decorator of endpoint(path, method) applied to a function: the entry
\* is stored before the method is looked at
endpoint(path, method) ==
    /\ builder' = [builder EXCEPT !.endpoints = Put(@, path, method),
                                  !.has_endpoint = TRUE]
    /\ response' = [op |-> "endpoint",
                    raised |-> IF Upper(method) \in Supported THEN NULL
                               ELSE Some("ValueError")]
    /\ UNCHANGED <<manager, auth, db_type, clock, frame, agents, tasks,
                   registered_agents, pc, exc, snap, faults, recorded>>

\* PricingType(value): the value is one of the members of the Enum
IsPricingType(type) == type \in PricingTypes

\* PricingModel(type=..., price=..., currency=...): the model, or NULL when
\* the type is no PricingType or the price is negative (ValidationError)
PricingModel(type, price, currency) ==
    IF IsPricingType(type) /\ price >= 0
    THEN Some([type |-> type, price |-> price, currency |-> currency])
    ELSE NULL

SdkTypes == {"per_request", "bogus"}
SdkPrices == {0 - 1, 0, MaxPrice}

\* the value under the key "pricing" of a metadata dictionary
PricingDicts == [type : SdkTypes, price : SdkPrices]

\* the dictionaries handed to set_metadata; pricing NULL is a dictionary
\* without the key "pricing"
MetadataDicts ==
    [name : {"", "Test Agent"}, pricing : {NULL} \cup {Some(d) : d \in PricingDicts}]

\* AgentMetadata(**metadata) of the SDK: name must not be empty, pricing is a
\* required field; NULL when the constructor raises ValidationError
AgentMetadata(name, pricing, endpoints) ==
    IF name = "" \/ pricing = NULL
    THEN NULL
    ELSE Some([name |-> name, pricing |-> Val(pricing), endpoints |-> endpoints])

\* set_metadata(metadata)
set_metadata(metadata) ==
    LET pricing == IF metadata.pricing = NULL THEN Some(NULL)
                   ELSE LET pm == PricingModel(Val(metadata.pricing).type,
                                               Val(metadata.pricing).price, "USD")
                        IN  IF pm = NULL THEN NULL ELSE Some(pm)
        built == IF pricing = NULL THEN NULL
                 ELSE AgentMetadata(metadata.name, Val(pricing),
                                    {e.path : e \in builder.endpoints})
    IN  /\ builder' = IF built = NULL THEN builder
                      ELSE [builder EXCEPT !.metadata = built,
                                           !.has_metadata = TRUE]
        /\ response' = [op |-> "set_metadata", metadata |-> metadata,
                        raised |-> IF built = NULL THEN Some("ValidationError")
                                   ELSE NULL]
        /\ UNCHANGED <<manager, auth, db_type, clock, frame, agents, tasks,
                       registered_agents, pc, exc, snap, faults, recorded>>

\* set_pricing(pricing_type, price, currency="USD")
set_pricing(pricing_type, price) ==
    LET pricing_model == PricingModel(pricing_type, price, "USD")
    IN  /\ builder' =
              IF pricing_model = NULL THEN builder
              ELSE IF builder.metadata # NULL
              THEN [builder EXCEPT !.metadata =
                        Some([Val(@) EXCEPT !.pricing = Val(pricing_model)])]
              ELSE [builder EXCEPT !.pending_pricing = pricing_model]
        /\ response' = [op |-> "set_pricing",
                        pricing_model |-> pricing_model,
                        before |-> builder.metadata,
                        raised |-> IF pricing_model = NULL
                                   THEN Some("ValueError") ELSE NULL]
        /\ UNCHANGED <<manager, auth, db_type, clock, frame, agents, tasks,
                       registered_agents, pc, exc, snap, faults, recorded>>

\* validate() that only looks at the metadata
validate_metadata_only(b) ==
    IF b.metadata = NULL THEN "ValueError"
    ELSE "True"

\* AgentBuilder.validate() on the builder b: "True" when it returns True,
\* "ValueError" when it raises ("Agent metadata must be set", "Agent must
\* have at least one endpoint")
validate(b) ==
    IF b.metadata = NULL THEN "ValueError"
    ELSE IF b.endpoints = {} THEN "ValueError"
    ELSE "True"

\* a call agent.validate()
Validate ==
    /\ response' = [op |-> "validate", result |-> validate(builder)]
    /\ UNCHANGED <<builder, manager, auth, db_type, clock, frame, agents, tasks,
                   registered_agents, pc, exc, snap, faults, recorded>>

\* the api_key argument of registry.register_agent; no key is configured in
\* the environment or in a file
ApiKeys == {NULL, Some("creator-key")}

\* registry.register_agent(agent, api_key): AgentHubClient.register_agent
\* posts the metadata to /agents/register
registry_register_agent(api_key) ==
    LET result == IF api_key = NULL THEN "ValueError"
                  ELSE validate(builder)
    IN  /\ Len(builder.sent) < MaxSent
        /\ builder' = IF result = "True"
                      THEN [builder EXCEPT !.sent = Append(@, Val(builder.metadata))]
                      ELSE builder
        /\ response' = [op |-> "registry.register_agent", result |-> result]
        /\ UNCHANGED <<manager, auth, db_type, clock, frame, agents, tasks,
                       registered_agents, pc, exc, snap, faults, recorded>>

NextBuilder ==
    \/ \E path \in Paths, method \in Methods : endpoint(path, method)
    \/ \E metadata \in MetadataDicts : set_metadata(metadata)
    \/ \E pricing_type \in SdkTypes, price \in SdkPrices :
            set_pricing(pricing_type, price)
    \/ Validate
    \/ \E api_key \in ApiKeys : registry_register_agent(api_key)

----------------------------------------------------------------------------
(* ACPServerManager (agenthub_server/acp_manager.py) *)

\* ACPServerManager.__init__; creating holds the calls of
\* create_agent_server that are waiting for their server process to start
NewManager == [active_servers |-> {}, used_ports |-> {}, creating |-> {}]

PortRangeStart == 9000

\* range(self.port_range_start, self.port_range_end + 1)
PortRange == PortRangeStart..(PortRangeStart + MaxPorts - 1)

\* the task_id argument of create_agent_server and cleanup_server
ServerTaskIds == 1..MaxTasks

\* find_available_port: the first port of the range that is not in
\* used_ports and that the socket can bind (bound holds the ports whose bind
\* raises OSError), or NULL for "No available ports in range"
find_available_port(bound) ==
    LET free == {port \in PortRange :
                    port \notin manager.used_ports /\ port \notin bound}
    IN  IF free = {} THEN NULL
        ELSE Some(CHOOSE port \in free : \A q \in free : port <= q)

\* self.active_servers[task_id] = server_info: a dict has one entry per key
SetServer(m, task_id, port) ==
    [m EXCEPT !.active_servers =
                  {e \in @ : e.task_id # task_id}
                      \cup {[task_id |-> task_id, port |-> port]}]

\* create_agent_server up to `await asyncio.sleep(2)`: the port is taken and
\* the server process started; the call raises when acp_sdk is not
\* installed and when no port is available
create_agent_server_begin(task_id, bound, acp_available) ==
    LET port == IF acp_available THEN find_available_port(bound) ELSE NULL
    IN  /\ manager' =
              IF port = NULL THEN manager
              ELSE [manager EXCEPT
                      !.used_ports = @ \cup {Val(port)},
                      !.creating = @ \cup {[task_id |-> task_id,
                                            port |-> Val(port)]}]
        /\ response' = [op |-> "create_agent_server", task_id |-> task_id,
                        raised |-> port = NULL]
        /\ UNCHANGED <<builder, auth, db_type, clock, frame, agents, tasks,
                       registered_agents, pc, exc, snap, faults, recorded>>

\* create_agent_server after the sleep: the process is running and the
\* server is entered in active_servers, or it has exited and the except
\* handler releases the port and raises
create_agent_server_end(call, running) ==
    /\ call \in manager.creating
    /\ manager' =
          IF running
          THEN [SetServer(manager, call.task_id, call.port)
                    EXCEPT !.creating = @ \ {call}]
          ELSE [manager EXCEPT !.used_ports = @ \ {call.port},
                               !.creating = @ \ {call}]
    /\ response' = [op |-> "create_agent_server", task_id |-> call.task_id,
                    raised |-> ~running]
    /\ UNCHANGED <<builder, auth, db_type, clock, frame, agents, tasks,
                   registered_agents, pc, exc, snap, faults, recorded>>

\* cleanup_server(task_id) on the manager m; raises is TRUE when stopping
\* the process raises, which the except handler logs
CleanupServer(m, task_id, raises) ==
    IF \A e \in m.active_servers : e.task_id # task_id THEN m
    ELSE IF raises THEN m
    ELSE LET server_info ==
                 CHOOSE e \in m.active_servers : e.task_id = task_id
         IN  [m EXCEPT !.used_ports = @ \ {server_info.port},
                       !.active_servers = @ \ {server_info}]

\* a call cleanup_server(task_id)
cleanup_server(task_id, raises) ==
    /\ manager' = CleanupServer(manager, task_id, raises)
    /\ response' = [op |-> "cleanup_server", task_id |-> task_id]
    /\ UNCHANGED <<builder, auth, db_type, clock, frame, agents, tasks,
                   registered_agents, pc, exc, snap, faults, recorded>>

\* the loop of cleanup_all_servers over the task ids ids
RECURSIVE CleanupAll(_, _, _)
CleanupAll(m, ids, raising) ==
    IF ids = {} THEN m
    ELSE LET task_id == CHOOSE i \in ids : \A j \in ids : i <= j
         IN  CleanupAll(CleanupServer(m, task_id, task_id \in raising),
                        ids \ {task_id}, raising)

\* a call cleanup_all_servers(); raising holds the task ids whose
\* cleanup_server logs an error
cleanup_all_servers(raising) ==
    /\ manager' = CleanupAll(manager,
                             {e.task_id : e \in manager.active_servers},
                             raising)
    /\ response' = [op |-> "cleanup_all_servers"]
    /\ UNCHANGED <<builder, auth, db_type, clock, frame, agents, tasks,
                   registered_agents, pc, exc, snap, faults, recorded>>

NextManager ==
    \/ \E task_id \in ServerTaskIds, bound \in SUBSET PortRange,
          acp_available \in BOOLEAN :
            create_agent_server_begin(task_id, bound, acp_available)
    \/ \E call \in manager.creating, running \in BOOLEAN :
            create_agent_server_end(call, running)
    \/ \E task_id \in ServerTaskIds, raises \in BOOLEAN :
            cleanup_server(task_id, raises)
    \/ \E raising \in SUBSET ServerTaskIds : cleanup_all_servers(raising)

----------------------------------------------------------------------------
(* Authentication: AgentHubServer.get_current_user *)

\* a new server on a new database: table users is empty and no request has
\* been admitted
NewAuth(require_auth) ==
    [require_auth |-> require_auth, users |-> {}, admitted |-> NULL]

ApiKeyValues == {"key-1", "key-2"}

\* what HTTPBearer(auto_error=False) hands to get_current_user: NULL when
\* the request has no Authorization header
Credentials == {NULL} \cup {Some(k) : k \in ApiKeyValues}

DevUser == "dev-user"

\* get_current_user that admits every request that carries a key
get_current_user_any_key(credentials) ==
    IF ~auth.require_auth THEN Some(DevUser)
    ELSE IF credentials = NULL THEN NULL
    ELSE Some(Val(credentials))

\* get_current_user(credentials): the user, or NULL for HTTPException(401);
\* a user is identified by its api key
get_current_user(credentials) ==
    IF ~auth.require_auth THEN Some(DevUser)
    ELSE IF credentials = NULL THEN NULL
    ELSE IF Val(credentials) \in auth.users THEN Some(Val(credentials))
    ELSE NULL

\* the routes that depend on get_current_user and write records
Routes == {"register_agent", "create_task", "create_batch_tasks"}

\* db.create_user(api_key) (cli.py): api_key is UNIQUE
create_user(api_key) ==
    /\ api_key \notin auth.users
    /\ auth' = [auth EXCEPT !.users = @ \cup {api_key}]
    /\ response' = [op |-> "create_user", api_key |-> api_key]
    /\ UNCHANGED <<builder, manager, db_type, clock, frame, agents, tasks,
                   registered_agents, pc, exc, snap, faults, recorded>>

\* a request to route arrives with credentials: FastAPI resolves
\* Depends(self.get_current_user) before it calls the handler, and answers
\* 401 itself when the dependency raises
Receive(route, credentials) ==
    LET user == get_current_user(credentials)
    IN  /\ auth' = IF user = NULL THEN auth
                   ELSE [auth EXCEPT !.admitted =
                            Some([route |-> route, credentials |-> credentials,
                                  user |-> Val(user)])]
        /\ response' = [op |-> "get_current_user", route |-> route,
                        credentials |-> credentials,
                        code |-> IF user = NULL THEN 401 ELSE 200]
        /\ UNCHANGED <<builder, manager, db_type, clock, frame, agents, tasks,
                       registered_agents, pc, exc, snap, faults, recorded>>

\* the handler of route is called for the request admitted last
Admitted(route) == auth.admitted # NULL /\ Val(auth.admitted).route = route

----------------------------------------------------------------------------
(* Initial state: a new database, an empty local table *)

InitServer ==
    /\ db_type \in {"sqlite", "postgresql"}
    /\ agents = <<>>
    /\ tasks = <<>>
    /\ registered_agents = {}
    /\ pc = <<>>
    /\ exc = <<>>
    /\ frame = <<>>
    /\ snap = <<>>
    /\ faults = 0
    /\ response = NoResponse
    /\ recorded = <<>>
    /\ clock = 1
    /\ builder = NewBuilder
    /\ manager = NewManager

\* AgentHubServer(database_url): require_auth defaults to True
Init == InitServer /\ auth = NewAuth(TRUE)

\* AgentHubServer(database_url, require_auth=...)
AuthInit == InitServer /\ \E require_auth \in BOOLEAN : auth = NewAuth(require_auth)

----------------------------------------------------------------------------
(* Route handlers *)

Digits == {"0", "1", "2", "3", "4", "5", "6", "7", "8", "9"}

\* v.split('.'): the parts of v between the dots, part the one being read
RECURSIVE Split(_, _)
Split(v, part) ==
    IF v = <<>> THEN <<part>>
    ELSE IF Head(v) = "." THEN <<part>> \o Split(Tail(v), <<>>)
    ELSE Split(Tail(v), Append(part, Head(v)))

\* part.isdigit()
IsDigit(part) ==
    part # <<>> /\ \A i \in DOMAIN part : part[i] \in Digits

\* AgentMetadata.validate_version: TRUE when the validator accepts v
validate_version(v) ==
    IF v # <<>>
    THEN LET parts == Split(v, <<>>)
         IN  /\ Len(parts) = 3
             /\ \A i \in DOMAIN parts : IsDigit(parts[i])
    ELSE TRUE

\* POST /agents/register: the body is parsed into AgentRegistration, then
\* the handler checks the name and calls db.register_agent(metadata) with
\* no endpoint_url
register_agent(metadata) ==
    IF ~validate_version(metadata.version)
    THEN /\ response' = [op |-> "register_agent", code |-> 422,
                         metadata |-> metadata]
         /\ UNCHANGED <<builder, manager, auth, db_type, clock, frame, agents, tasks, registered_agents, pc,
                        exc, snap, faults, recorded>>
    ELSE IF metadata.name = <<>>
    THEN /\ response' = [op |-> "register_agent", code |-> 500,
                         metadata |-> metadata]
         /\ UNCHANGED <<builder, manager, auth, db_type, clock, frame, agents, tasks, registered_agents, pc,
                        exc, snap, faults, recorded>>
    ELSE /\ agents' = db_register_agent(metadata, NULL)
         /\ recorded' = Append(recorded, [n |-> 0, succ |-> 0, sum |-> 0])
         /\ response' = [op |-> "register_agent", code |-> 200,
                         metadata |-> metadata, agent_id |-> Len(agents) + 1]
         /\ UNCHANGED <<builder, manager, auth, db_type, clock, frame, tasks, registered_agents, pc, exc,
                        snap, faults>>

\* AgentHubServer.register_agent_endpoint, called with an AgentMetadata
\* (constructing one runs validate_version)
register_agent_endpoint(agent_metadata, endpoint_url) ==
    /\ validate_version(agent_metadata.version)
    /\ agents' = db_register_agent(agent_metadata, Some(endpoint_url))
    /\ registered_agents' = registered_agents \cup
            {[id |-> Len(agents) + 1, endpoint_url |-> Some(endpoint_url)]}
    /\ recorded' = Append(recorded, [n |-> 0, succ |-> 0, sum |-> 0])
    /\ response' = [op |-> "register_agent_endpoint",
                    metadata |-> agent_metadata, agent_id |-> Len(agents) + 1]
    /\ UNCHANGED <<builder, manager, auth, db_type, clock, frame, tasks, pc, exc, snap, faults>>

\* PUT /agents/{agent_id}: looks the agent up and updates nothing
update_agent(agent_id, metadata) ==
    /\ response' = [op |-> "update_agent", agent_id |-> agent_id,
                    code |-> IF get_agent(agent_id) = NULL THEN 404 ELSE 200]
    /\ UNCHANGED <<builder, manager, auth, db_type, clock, frame, agents, tasks,
                   registered_agents, pc, exc, snap, faults, recorded>>

\* a delete_agent that runs DELETE FROM agents WHERE id = agent_id, for the
\* agent registered last
delete_agent_physical(agent_id) ==
    /\ agents' = IF agent_id = Len(agents) /\ agent_id >= 1
                 THEN SubSeq(agents, 1, Len(agents) - 1) ELSE agents
    /\ response' = [op |-> "delete_agent", agent_id |-> agent_id, code |-> 200]
    /\ UNCHANGED <<builder, manager, auth, db_type, clock, frame, tasks,
                   registered_agents, pc, exc, snap, faults, recorded>>

\* DELETE /agents/{agent_id}: answers "Agent deleted successfully" and
\* writes nothing
delete_agent(agent_id) ==
    /\ response' = [op |-> "delete_agent", agent_id |-> agent_id, code |-> 200]
    /\ UNCHANGED <<builder, manager, auth, db_type, clock, frame, agents, tasks,
                   registered_agents, pc, exc, snap, faults, recorded>>

\* POST /agents/{agent_id}/heartbeat: looks the agent up and writes nothing
agent_heartbeat(agent_id) ==
    /\ response' = [op |-> "agent_heartbeat", agent_id |-> agent_id,
                    code |-> IF get_agent(agent_id) = NULL THEN 404 ELSE 200]
    /\ UNCHANGED <<builder, manager, auth, db_type, clock, frame, agents, tasks,
                   registered_agents, pc, exc, snap, faults, recorded>>

\* background_tasks.add_task(self.execute_task, task_id, agent, task_request)
Schedule(sched, n) ==
    [i \in 1..(Len(sched) + n) |-> IF i <= Len(sched) THEN sched[i] ELSE "scheduled"]

Grow(seq, n) ==
    [i \in 1..(Len(seq) + n) |-> IF i <= Len(seq) THEN seq[i] ELSE NULL]

\* the arguments of a scheduled execute_task; no HTTP client exists yet and
\* no POST has been sent
NewFrame(task_id, task_request) ==
    [task_id |-> task_id, task_request |-> task_request,
     client_timeout |-> NULL, url |-> NULL, posts |-> 0]

\* create_task that inserts the task row before it looks the agent up
create_task_unchecked(task_request, raises) ==
    /\ ~raises
    /\ Len(tasks) < MaxTasks
    /\ tasks' = db_create_task(tasks, task_request.agent_id)
    /\ pc' = Schedule(pc, 1)
    /\ exc' = Grow(exc, 1)
    /\ frame' = Append(frame, NewFrame(Len(tasks) + 1, task_request))
    /\ snap' = Grow(snap, 1)
    /\ response' = IF get_agent(task_request.agent_id) = NULL
                   THEN [op |-> "create_task", code |-> 404,
                         agent_id |-> task_request.agent_id]
                   ELSE [op |-> "create_task", code |-> 200,
                         agent_id |-> task_request.agent_id,
                         task_id |-> Len(tasks) + 1,
                         status |-> "pending"]
    /\ UNCHANGED <<builder, manager, auth, db_type, clock, agents, registered_agents, faults, recorded>>

\* POST /tasks; raises is TRUE when db.create_task raises
create_task(task_request, raises) ==
    LET agent == get_agent(task_request.agent_id)
    IN  IF agent = NULL
        THEN /\ ~raises
             /\ response' = [op |-> "create_task", code |-> 404,
                             agent_id |-> task_request.agent_id]
             /\ UNCHANGED <<builder, manager, auth, db_type, clock, frame, agents, tasks, registered_agents, pc,
                            exc, snap, faults, recorded>>
        ELSE IF raises
        THEN /\ faults < MaxFaults
             /\ faults' = faults + 1
             /\ response' = [op |-> "create_task", code |-> 500,
                             agent_id |-> task_request.agent_id]
             /\ UNCHANGED <<builder, manager, auth, db_type, clock, frame, agents, tasks, registered_agents, pc,
                            exc, snap, recorded>>
        ELSE /\ Len(tasks) < MaxTasks
             /\ tasks' = db_create_task(tasks, task_request.agent_id)
             /\ pc' = Schedule(pc, 1)
             /\ exc' = Grow(exc, 1)
             /\ frame' = Append(frame, NewFrame(Len(tasks) + 1, task_request))
             /\ snap' = Grow(snap, 1)
             /\ response' = [op |-> "create_task", code |-> 200,
                             agent_id |-> task_request.agent_id,
                             task_id |-> Len(tasks) + 1,
                             status |-> "pending"]
             /\ UNCHANGED <<builder, manager, auth, db_type, clock, agents, registered_agents, faults, recorded>>

\* one iteration of the loop of create_batch_tasks over tbl (the tasks table)
BatchItem(tbl, task_request, raises) ==
    IF get_agent(task_request.agent_id) = NULL
    THEN [ tbl |-> tbl,
           item |-> [error |-> "Agent " \o ToString(task_request.agent_id)
                                         \o " not found",
                     agent_id |-> task_request.agent_id] ]
    ELSE IF raises
    THEN [ tbl |-> tbl,
           item |-> [error |-> "database error",
                     agent_id |-> task_request.agent_id] ]
    ELSE [ tbl |-> db_create_task(tbl, task_request.agent_id),
           item |-> [task_id |-> Len(tbl) + 1,
                     status |-> "pending",
                     agent_id |-> task_request.agent_id] ]

\* the loop of create_batch_tasks leaving the loop at the first failing item
RECURSIVE BatchLoopAbort(_, _, _, _, _)
BatchLoopAbort(reqs, raising, i, tbl, results) ==
    IF i > Len(reqs)
    THEN [tbl |-> tbl, results |-> results]
    ELSE LET r == BatchItem(tbl, reqs[i], i \in raising)
         IN  IF "error" \in DOMAIN r.item
             THEN [tbl |-> r.tbl, results |-> Append(results, r.item)]
             ELSE BatchLoopAbort(reqs, raising, i + 1, r.tbl, Append(results, r.item))

\* the loop of create_batch_tasks from request i on; raising is the set of
\* positions whose db.create_task raises
RECURSIVE BatchLoop(_, _, _, _, _)
BatchLoop(reqs, raising, i, tbl, results) ==
    IF i > Len(reqs)
    THEN [tbl |-> tbl, results |-> results]
    ELSE LET r == BatchItem(tbl, reqs[i], i \in raising)
         IN  BatchLoop(reqs, raising, i + 1, r.tbl, Append(results, r.item))

\* the frames of the executions scheduled by the loop, one for each task
\* entry of results, from entry i on
RECURSIVE Scheduled(_, _, _)
Scheduled(reqs, results, i) ==
    IF i > Len(results) THEN <<>>
    ELSE IF "task_id" \in DOMAIN results[i]
         THEN <<NewFrame(results[i].task_id, reqs[i])>>
                  \o Scheduled(reqs, results, i + 1)
         ELSE Scheduled(reqs, results, i + 1)

\* POST /tasks/batch
create_batch_tasks(reqs, raising) ==
    LET out == BatchLoop(reqs, raising, 1, tasks, <<>>)
        n   == Len(out.tbl) - Len(tasks)
    IN  /\ \A i \in raising : get_agent(reqs[i].agent_id) # NULL
        /\ faults + Cardinality(raising) <= MaxFaults
        /\ Len(out.tbl) <= MaxTasks
        /\ tasks' = out.tbl
        /\ pc' = Schedule(pc, n)
        /\ exc' = Grow(exc, n)
        /\ frame' = frame \o Scheduled(reqs, out.results, 1)
        /\ snap' = Grow(snap, n)
        /\ faults' = faults + Cardinality(raising)
        /\ response' = [op |-> "create_batch_tasks", code |-> 200,
                        request |-> reqs,
                        tasks |-> out.results, total |-> Len(out.results)]
        /\ UNCHANGED <<builder, manager, auth, db_type, clock, agents, registered_agents, recorded>>

----------------------------------------------------------------------------
(* Dispatcher: AgentHubServer.execute_task, one action per step *)

DbError == "database error"
NoEndpoint == "No endpoint URL available for agent"

\* agent_id in registered_agents
InTable(agent_id) == \E entry \in registered_agents : entry.id = agent_id

\* registered_agents[agent_id]
Entry(agent_id) == CHOOSE entry \in registered_agents : entry.id = agent_id

\* `not endpoint_url`: None and the empty string are falsy
Falsy(endpoint_url) == endpoint_url = NULL \/ endpoint_url = Some("")

DefaultPort == 8000

\* local_agent.get('port', 8000)
Port(local_agent) ==
    IF "port" \in DOMAIN local_agent THEN local_agent.port ELSE DefaultPort

\* f"http://localhost:{port}"
LocalUrl(port) == "http://localhost:" \o ToString(port)

\* endpoint resolution that falls back to the local default port for every
\* agent without an endpoint_url
ResolveEndpointLocal(agent_info) ==
    IF ~Falsy(agent_info.endpoint_url)
    THEN agent_info.endpoint_url
    ELSE Some(LocalUrl(DefaultPort))

\* endpoint resolution of execute_task: the URL to call, or NULL
ResolveEndpoint(agent_info) ==
    IF ~Falsy(agent_info.endpoint_url)
    THEN agent_info.endpoint_url
    ELSE IF InTable(agent_info.id)
         THEN Some(LocalUrl(Port(Entry(agent_info.id))))
         ELSE NULL

AgentInfo(t) == Val(get_agent(tasks[t].agent_id))

\* httpx.AsyncClient(timeout=30.0)
DefaultTimeout == 30

\* the timeout of the HTTP client created for task_request
ClientTimeout(task_request) == DefaultTimeout

DataError == "invalid input syntax for type real"

\* a Python value bound to the REAL column cost: SQLite stores any value,
\* PostgreSQL refuses a string that is not a number
Storable(v) == db_type = "sqlite" \/ v.kind # "text"

\* the column value a bound Python value becomes; None becomes NULL
Column(v) == IF v.kind = "none" THEN NULL ELSE Some(v)

\* try: update_task(task_id, "running"), then the endpoint resolution
ExecStart(t, raises) ==
    /\ pc[t] = "scheduled"
    /\ IF raises
       THEN /\ faults < MaxFaults
            /\ faults' = faults + 1
            /\ pc' = [pc EXCEPT ![t] = "except"]
            /\ exc' = [exc EXCEPT ![t] = Some(DbError)]
            /\ UNCHANGED <<tasks, frame>>
       ELSE /\ tasks' = update_task(frame[t].task_id, "running",
                                    NULL, NULL, NULL, NULL)
            /\ IF ResolveEndpoint(AgentInfo(t)) = NULL
               THEN /\ pc' = [pc EXCEPT ![t] = "except"]
                    /\ exc' = [exc EXCEPT ![t] = Some(NoEndpoint)]
                    /\ UNCHANGED frame
               ELSE /\ pc' = [pc EXCEPT ![t] = "http"]
                    /\ frame' = [frame EXCEPT
                          ![t].client_timeout =
                              Some(ClientTimeout(frame[t].task_request)),
                          ![t].url = ResolveEndpoint(AgentInfo(t)),
                          ![t].posts = @ + 1]
                    /\ UNCHANGED exc
            /\ UNCHANGED faults
    /\ response' = NoResponse
    /\ UNCHANGED <<builder, manager, auth, db_type, clock, agents, registered_agents, snap, recorded>>

\* an HTTP call that is sent once more when the first POST fails
ExecRespondRetry(t, failure, body, execution_time, raises) ==
    /\ pc[t] = "http"
    /\ ~raises
    /\ IF failure # NULL
       THEN /\ IF frame[t].posts < 2
               THEN /\ frame' = [frame EXCEPT ![t].posts = @ + 1]
                    /\ UNCHANGED <<pc, exc>>
               ELSE /\ pc' = [pc EXCEPT ![t] = "except"]
                    /\ exc' = [exc EXCEPT ![t] = failure]
                    /\ UNCHANGED frame
            /\ UNCHANGED <<tasks, clock>>
       ELSE /\ tasks' = update_task(frame[t].task_id, "completed", Some(body), NULL,
                                    Some(execution_time),
                                    Column(calculate_task_cost(AgentInfo(t),
                                                               execution_time)))
            /\ clock' = Tick("completed")
            /\ pc' = [pc EXCEPT ![t] = "stats_ok"]
            /\ UNCHANGED <<exc, frame>>
    /\ response' = NoResponse
    /\ UNCHANGED <<builder, manager, auth, db_type, agents, registered_agents,
                   snap, recorded, faults>>

\* the awaited POST returns or raises; on a 2xx response with a parsed body
\* the elapsed time is measured, the cost computed and the task completed
ExecRespond(t, failure, body, execution_time, raises) ==
    /\ pc[t] = "http"
    /\ IF failure # NULL
       THEN /\ ~raises
            /\ pc' = [pc EXCEPT ![t] = "except"]
            /\ exc' = [exc EXCEPT ![t] = failure]
            /\ UNCHANGED <<tasks, faults, clock>>
       ELSE IF raises
       THEN /\ faults < MaxFaults
            /\ faults' = faults + 1
            /\ pc' = [pc EXCEPT ![t] = "except"]
            /\ exc' = [exc EXCEPT ![t] = Some(DbError)]
            /\ UNCHANGED <<tasks, clock>>
       ELSE LET cost == calculate_task_cost(AgentInfo(t), execution_time)
            IN  IF ~Storable(cost)
                THEN /\ pc' = [pc EXCEPT ![t] = "except"]
                     /\ exc' = [exc EXCEPT ![t] = Some(DataError)]
                     /\ UNCHANGED <<tasks, faults, clock>>
                ELSE /\ tasks' = update_task(frame[t].task_id, "completed",
                                     Some(body), NULL,
                                     Some(execution_time), Column(cost))
                     /\ clock' = Tick("completed")
                     /\ pc' = [pc EXCEPT ![t] = "stats_ok"]
                     /\ UNCHANGED <<exc, faults>>
    /\ response' = NoResponse
    /\ UNCHANGED <<builder, manager, auth, db_type, frame, agents, registered_agents, snap, recorded>>

\* time.time() - start_time never decreases between two measurements
Elapsed(t, execution_time) ==
    tasks[t].execution_time # NULL => Val(tasks[t].execution_time) <= execution_time

\* an except handler that goes on to update_agent_stats without having
\* written the failed status
ExecExceptStatsFirst(t, execution_time, raises) ==
    /\ pc[t] = "except"
    /\ ~raises
    /\ Elapsed(t, execution_time)
    /\ tasks' = [tasks EXCEPT ![frame[t].task_id].execution_time =
                                  Some(execution_time)]
    /\ pc' = [pc EXCEPT ![t] = "stats_err"]
    /\ exc' = [exc EXCEPT ![t] = NULL]
    /\ response' = NoResponse
    /\ UNCHANGED <<builder, manager, auth, db_type, frame, agents,
                   registered_agents, snap, recorded, faults, clock>>

\* except Exception as e: update_task(task_id, "failed", error=str(e), ...)
ExecExcept(t, execution_time, raises) ==
    /\ pc[t] = "except"
    /\ Elapsed(t, execution_time)
    /\ IF raises
       THEN /\ faults < MaxFaults
            /\ faults' = faults + 1
            /\ pc' = [pc EXCEPT ![t] = "escaped"]
            /\ UNCHANGED <<tasks, clock>>
       ELSE /\ tasks' = update_task(frame[t].task_id, "failed", NULL, exc[t],
                                    Some(execution_time), NULL)
            /\ clock' = Tick("failed")
            /\ pc' = [pc EXCEPT ![t] = "stats_err"]
            /\ UNCHANGED faults
    /\ exc' = [exc EXCEPT ![t] = NULL]
    /\ response' = NoResponse
    /\ UNCHANGED <<builder, manager, auth, db_type, frame, agents, registered_agents, snap, recorded>>

\* the success flag execute_task passes to update_agent_stats
Success(t) == pc[t] \in {"stats_ok", "stats_ok_w"}

\* update_agent_stats raised: into the handler from the try block, out of
\* execute_task from the handler
StatsRaise(t) ==
    /\ faults < MaxFaults
    /\ faults' = faults + 1
    /\ IF Success(t)
       THEN /\ pc' = [pc EXCEPT ![t] = "except"]
            /\ exc' = [exc EXCEPT ![t] = Some(DbError)]
       ELSE /\ pc' = [pc EXCEPT ![t] = "escaped"]
            /\ UNCHANGED exc
    /\ snap' = [snap EXCEPT ![t] = NULL]
    /\ UNCHANGED <<agents, recorded>>

\* update_agent_stats on SQLite, the SELECT
StatsRead(t) ==
    /\ db_type = "sqlite"
    /\ pc[t] \in {"stats_ok", "stats_err"}
    /\ IF get_agent(tasks[t].agent_id) = NULL
       THEN /\ pc' = [pc EXCEPT ![t] = "done"]
            /\ UNCHANGED snap
       ELSE /\ pc' = [pc EXCEPT ![t] = IF Success(t) THEN "stats_ok_w"
                                                     ELSE "stats_err_w"]
            /\ snap' = [snap EXCEPT ![t] = Some(StatsOf(agents[tasks[t].agent_id]))]
    /\ response' = NoResponse
    /\ UNCHANGED <<builder, manager, auth, db_type, clock, frame, agents, tasks, registered_agents, exc, faults, recorded>>

\* update_agent_stats on SQLite, the UPDATE computed from the SELECTed row
StatsWrite(t, raises) ==
    /\ db_type = "sqlite"
    /\ pc[t] \in {"stats_ok_w", "stats_err_w"}
    /\ IF raises
       THEN StatsRaise(t)
       ELSE /\ agents' = WriteStats(tasks[t].agent_id,
                            update_agent_stats(Val(snap[t]), Success(t),
                                               Val(tasks[t].execution_time)))
            /\ recorded' = Record(tasks[t].agent_id, Success(t),
                                  Val(tasks[t].execution_time))
            /\ pc' = [pc EXCEPT ![t] = "done"]
            /\ snap' = [snap EXCEPT ![t] = NULL]
            /\ UNCHANGED <<exc, faults>>
    /\ response' = NoResponse
    /\ UNCHANGED <<builder, manager, auth, db_type, clock, frame, tasks, registered_agents>>

\* update_agent_stats on PostgreSQL, a single UPDATE statement
StatsUpdate(t, raises) ==
    /\ db_type = "postgresql"
    /\ pc[t] \in {"stats_ok", "stats_err"}
    /\ IF raises
       THEN StatsRaise(t)
       ELSE /\ agents' = IF get_agent(tasks[t].agent_id) = NULL THEN agents
                         ELSE WriteStats(tasks[t].agent_id,
                                update_agent_stats(StatsOf(agents[tasks[t].agent_id]),
                                    Success(t), Val(tasks[t].execution_time)))
            /\ recorded' = IF get_agent(tasks[t].agent_id) = NULL THEN recorded
                           ELSE Record(tasks[t].agent_id, Success(t),
                                       Val(tasks[t].execution_time))
            /\ pc' = [pc EXCEPT ![t] = "done"]
            /\ UNCHANGED <<exc, faults, snap>>
    /\ response' = NoResponse
    /\ UNCHANGED <<builder, manager, auth, db_type, clock, frame, tasks, registered_agents>>

\* one step of the background execution of task t
execute_task(t) ==
    \/ \E raises \in BOOLEAN : ExecStart(t, raises)
    \/ \E failure \in {NULL} \cup {Some(f) : f \in HttpFailures},
          body \in Bodies, execution_time \in ExecTimes, raises \in BOOLEAN :
            ExecRespond(t, failure, body, execution_time, raises)
    \/ \E execution_time \in ExecTimes, raises \in BOOLEAN :
            ExecExcept(t, execution_time, raises)
    \/ StatsRead(t)
    \/ \E raises \in BOOLEAN : StatsWrite(t, raises)
    \/ \E raises \in BOOLEAN : StatsUpdate(t, raises)

----------------------------------------------------------------------------
(* The server *)

\* TaskRequest.timeout: Optional[int], ge=1
Timeouts == {NULL, Some(1), Some(MaxExecTime)}

TaskRequestsWith(timeouts) ==
    [agent_id : DOMAIN agents \cup {MissingId}, timeout : timeouts]

\* the requests of the dispatch specifications name no timeout
TaskRequests == TaskRequestsWith({NULL})

BatchRequests == UNION {[1..n -> TaskRequests] : n \in 0..MaxBatch}

\* the positions of a batch at which db.create_task is reached and may raise
Raising(reqs) ==
    IF faults < MaxFaults
    THEN SUBSET {i \in DOMAIN reqs : get_agent(reqs[i].agent_id) # NULL}
    ELSE {{}}

Next ==
    \/ \E metadata \in Metadatas(Pricings) :
            Len(agents) < MaxAgents /\ register_agent(metadata)
    \/ \E metadata \in Metadatas(Pricings), url \in Urls :
            Len(agents) < MaxAgents /\ register_agent_endpoint(metadata, url)
    \/ \E task_request \in TaskRequests, raises \in BOOLEAN :
            create_task(task_request, raises)
    \/ \E reqs \in BatchRequests : \E raising \in Raising(reqs) :
            create_batch_tasks(reqs, raising)
    \/ \E t \in DOMAIN tasks : execute_task(t)

Spec == Init /\ [][Next]_vars

----------------------------------------------------------------------------
(* The route handlers alone: no background execution takes a step *)

NextApi ==
    \/ \E metadata \in Metadatas(Pricings) :
            Len(agents) < MaxAgents /\ register_agent(metadata)
    \/ \E metadata \in Metadatas(Pricings), url \in Urls :
            Len(agents) < MaxAgents /\ register_agent_endpoint(metadata, url)
    \/ \E task_request \in TaskRequests, raises \in BOOLEAN :
            create_task(task_request, raises)
    \/ \E reqs \in BatchRequests : \E raising \in Raising(reqs) :
            create_batch_tasks(reqs, raising)

ApiSpec == Init /\ [][NextApi]_vars

----------------------------------------------------------------------------
(* Every route handler that names an agent *)

NextAgents ==
    \/ \E metadata \in Metadatas(Pricings) :
            Len(agents) < MaxAgents /\ register_agent(metadata)
    \/ \E metadata \in Metadatas(Pricings), url \in Urls :
            Len(agents) < MaxAgents /\ register_agent_endpoint(metadata, url)
    \/ \E task_request \in TaskRequests, raises \in BOOLEAN :
            create_task(task_request, raises)
    \/ \E reqs \in BatchRequests : \E raising \in Raising(reqs) :
            create_batch_tasks(reqs, raising)
    \/ \E agent_id \in DOMAIN agents \cup {MissingId},
          metadata \in Metadatas(Pricings) : update_agent(agent_id, metadata)
    \/ \E agent_id \in DOMAIN agents \cup {MissingId} : delete_agent(agent_id)
    \/ \E agent_id \in DOMAIN agents \cup {MissingId} : agent_heartbeat(agent_id)

AgentsSpec == Init /\ [][NextAgents]_vars

----------------------------------------------------------------------------
(* The Statistics Updater alone: update_agent_stats called sequentially *)

\* one complete call db.update_agent_stats(agent_id, success, execution_time)
RecordOutcome(agent_id, success, execution_time) ==
    /\ recorded[agent_id].n < MaxCalls
    /\ agents' = WriteStats(agent_id,
                    update_agent_stats(StatsOf(agents[agent_id]), success,
                                       execution_time))
    /\ recorded' = Record(agent_id, success, execution_time)
    /\ response' = NoResponse
    /\ UNCHANGED <<builder, manager, auth, db_type, clock, frame, tasks, registered_agents, pc, exc, snap, faults>>

NextStats ==
    \/ \E metadata \in Metadatas(Pricings) :
            Len(agents) < MaxAgents /\ register_agent(metadata)
    \/ \E metadata \in Metadatas(Pricings), url \in Urls :
            Len(agents) < MaxAgents /\ register_agent_endpoint(metadata, url)
    \/ \E agent_id \in DOMAIN agents, success \in BOOLEAN,
          execution_time \in ExecTimes :
            RecordOutcome(agent_id, success, execution_time)

StatsSpec == Init /\ [][NextStats]_vars

----------------------------------------------------------------------------
(* update_agent_stats called for agent ids with and without an agent row,
   next to the terminal writes of the Task Ledger *)

\* update_agent_stats that raises when the id has no agent row
db_update_agent_stats_strict(tbl, agent_id, success, execution_time) ==
    IF agent_id \in DOMAIN tbl
    THEN [ tbl |-> [tbl EXCEPT ![agent_id] =
                      [@ EXCEPT !.total_tasks = @ + 1]],
           raised |-> NULL ]
    ELSE [ tbl |-> tbl, raised |-> Some("agent not found") ]

\* one complete call db.update_agent_stats(agent_id, success,
\* execution_time) on the table tbl: the SELECT finds no row and the UPDATE
\* is skipped (SQLite), or the UPDATE matches no row (PostgreSQL)
db_update_agent_stats(tbl, agent_id, success, execution_time) ==
    IF agent_id \in DOMAIN tbl
    THEN LET new == update_agent_stats(StatsOf(tbl[agent_id]), success,
                                       execution_time)
         IN  [ tbl |-> [tbl EXCEPT ![agent_id] =
                          [@ EXCEPT !.total_tasks           = new.total_tasks,
                                    !.success_rate          = new.success_rate,
                                    !.average_response_time =
                                        new.average_response_time]],
               raised |-> NULL ]
    ELSE [ tbl |-> tbl, raised |-> NULL ]

\* a caller calls db.update_agent_stats
UpdateStatsCall(agent_id, success, execution_time) ==
    LET out == db_update_agent_stats(agents, agent_id, success, execution_time)
    IN  /\ \A a \in DOMAIN agents : agents[a].total_tasks < MaxCalls
        /\ agents' = out.tbl
        /\ recorded' = IF agent_id \in DOMAIN agents
                       THEN Record(agent_id, success, execution_time)
                       ELSE recorded
        /\ response' = [op |-> "update_agent_stats", agent_id |-> agent_id,
                        raised |-> out.raised]
        /\ UNCHANGED <<builder, manager, auth, db_type, clock, frame, tasks,
                       registered_agents, pc, exc, snap, faults>>

----------------------------------------------------------------------------
(* The Task Ledger alone: create_task and update_task called by any caller *)

Statuses == {"pending", "running", "completed", "failed"}

\* arguments a caller can hand to update_task
ResultArgs == {NULL, Some("{\"ok\":1}")}
ErrorArgs == {NULL, Some("boom")}
TimeArgs == {NULL, Some(MaxExecTime)}
CostArgs == {NULL, Some(Num(Int2Rat(MaxPrice)))}

\* one call db.create_task(agent_id, ...)
LedgerCreate(agent_id) ==
    /\ Len(tasks) < MaxTasks
    /\ tasks' = db_create_task(tasks, agent_id)
    /\ response' = [op |-> "db.create_task", task_id |-> Len(tasks) + 1]
    /\ UNCHANGED <<builder, manager, auth, db_type, clock, frame, agents, registered_agents, pc, exc, snap,
                   faults, recorded>>

\* one call db.update_task(task_id, status, result, error, execution_time, cost)
LedgerUpdate(task_id, status, result, error, execution_time, cost) ==
    /\ clock < MaxClock
    /\ tasks' = update_task(task_id, status, result, error, execution_time, cost)
    /\ clock' = Tick(status)
    /\ response' = [op |-> "db.update_task", task_id |-> task_id,
                    status |-> status]
    /\ UNCHANGED <<builder, manager, auth, db_type, frame, agents, registered_agents, pc, exc, snap,
                   faults, recorded>>

NextLedger ==
    \/ \E metadata \in Metadatas(Pricings) :
            Len(agents) < MaxAgents /\ register_agent(metadata)
    \/ \E agent_id \in DOMAIN agents : LedgerCreate(agent_id)
    \/ \E task_id \in DOMAIN tasks, status \in Statuses, result \in ResultArgs,
          error \in ErrorArgs, execution_time \in TimeArgs, cost \in CostArgs :
            LedgerUpdate(task_id, status, result, error, execution_time, cost)

LedgerSpec == Init /\ [][NextLedger]_vars

NextOutcome ==
    \/ \E metadata \in Metadatas(Pricings) :
            Len(agents) < MaxAgents /\ register_agent(metadata)
    \/ \E agent_id \in DOMAIN agents : LedgerCreate(agent_id)
    \/ \E task_id \in DOMAIN tasks :
          \/ LedgerUpdate(task_id, "completed", Some("{\"ok\":1}"), NULL,
                          Some(MaxExecTime), Some(Num(Int2Rat(MaxPrice))))
          \/ LedgerUpdate(task_id, "failed", NULL, Some("boom"),
                          Some(MaxExecTime), NULL)
    \/ \E agent_id \in DOMAIN agents \cup {MissingId}, success \in BOOLEAN,
          execution_time \in ExecTimes :
            UpdateStatsCall(agent_id, success, execution_time)

OutcomeSpec == Init /\ [][NextOutcome]_vars

----------------------------------------------------------------------------
(* The Pricing Calculator alone: calculate_task_cost applied to its inputs *)

\* execution times of up to MaxMinutes minutes, in seconds
CostTimes == {0, 1} \cup {m * MaxExecTime : m \in 1..(2 * MaxMinutes)}

\* one call self.calculate_task_cost(agent_info, execution_time)
CostCall(pricing, execution_time) ==
    /\ response' = [op |-> "calculate_task_cost", pricing |-> pricing,
                    execution_time |-> execution_time,
                    cost |-> calculate_task_cost([pricing |-> pricing],
                                                 execution_time)]
    /\ UNCHANGED <<builder, manager, auth, db_type, clock, frame, agents, tasks, registered_agents, pc, exc,
                   snap, faults, recorded>>

NextCost ==
    \E pricing \in PricingModels \cup MalformedPricings \cup {NULL},
       execution_time \in CostTimes : CostCall(pricing, execution_time)

CostSpec == Init /\ [][NextCost]_vars

----------------------------------------------------------------------------
(* The dispatcher over a Repository that does not fail, for agents whose
   stored pricing may be malformed *)

NextPricing ==
    \/ \E metadata \in Metadatas(Pricings \cup MalformedPricings), url \in Urls :
            Len(agents) < MaxAgents /\ register_agent_endpoint(metadata, url)
    \/ \E task_request \in TaskRequests : create_task(task_request, FALSE)
    \/ \E t \in DOMAIN tasks :
          \/ ExecStart(t, FALSE)
          \/ \E failure \in {NULL} \cup {Some(f) : f \in HttpFailures},
                body \in Bodies, execution_time \in ExecTimes :
                  ExecRespond(t, failure, body, execution_time, FALSE)
          \/ \E execution_time \in ExecTimes : ExecExcept(t, execution_time, FALSE)
          \/ StatsRead(t)
          \/ StatsWrite(t, FALSE)
          \/ StatsUpdate(t, FALSE)

PricingSpec == Init /\ [][NextPricing]_vars

----------------------------------------------------------------------------
(* Registration alone, for every metadata a caller can submit *)

RawMetadatas ==
    {Metadata(name, category, version, NULL) :
        name \in Names, category \in Categories, version \in Versions}

NextRegistry ==
    \/ \E metadata \in RawMetadatas :
            Len(agents) < MaxAgents /\ register_agent(metadata)
    \/ \E metadata \in RawMetadatas, url \in Urls :
            Len(agents) < MaxAgents /\ register_agent_endpoint(metadata, url)

RegistrySpec == Init /\ [][NextRegistry]_vars

----------------------------------------------------------------------------
(* The Agent Directory: registration and search *)

\* name LIKE '%' || name_pattern || '%'
Like(name, name_pattern) ==
    \E i \in 1..(Len(name) - Len(name_pattern) + 1) :
        SubSeq(name, i, i + Len(name_pattern) - 1) = name_pattern

\* the WHERE clause search_agents builds: a filter that is None or empty
\* adds no condition
Where(row, category, name_pattern) ==
    /\ row.status = "active"
    /\ (category # NULL /\ Val(category) # "") => row.category = Val(category)
    /\ (name_pattern # NULL /\ Val(name_pattern) # <<>>) =>
            Like(row.name, Val(name_pattern))

\* ORDER BY reliability_score DESC: every order of the rows ids by
\* descending score; the order of rows with equal scores is not determined
OrderBy(ids) ==
    {full \in [1..Cardinality(ids) -> ids] :
        /\ \A i, j \in DOMAIN full : i # j => full[i] # full[j]
        /\ \A i, j \in DOMAIN full :
              i < j => agents[full[i]].reliability_score
                          >= agents[full[j]].reliability_score}

\* LIMIT limit OFFSET offset
LimitOffset(full, limit, offset) ==
    SubSeq(full, offset + 1,
           IF offset + limit < Len(full) THEN offset + limit ELSE Len(full))

\* the call continues a run of pages: same filters and limit as the last
\* call, which was a page of a run from offset 0, and the next offset
Continues(category, name_pattern, limit, offset) ==
    /\ offset > 0
    /\ response.op = "search_agents"
    /\ response.category = category
    /\ response.name_pattern = name_pattern
    /\ response.limit = limit
    /\ response.offset + limit = offset
    /\ response.from_start

\* GET /agents: db.search_agents(category, name_pattern, limit, offset);
\* before holds the earlier pages of the run the call continues
search_agents(category, name_pattern, limit, offset) ==
    \E full \in OrderBy({a \in DOMAIN agents :
                            Where(agents[a], category, name_pattern)}) :
        /\ response' =
              [op |-> "search_agents", category |-> category,
               name_pattern |-> name_pattern, limit |-> limit,
               offset |-> offset,
               agents |-> LimitOffset(full, limit, offset),
               from_start |-> offset = 0 \/
                              Continues(category, name_pattern, limit, offset),
               before |-> IF Continues(category, name_pattern, limit, offset)
                          THEN response.before \o response.agents
                          ELSE <<>>]
        /\ UNCHANGED <<builder, manager, auth, db_type, clock, frame, agents, tasks, registered_agents,
                       pc, exc, snap, faults, recorded>>

CategoryFilters == {NULL, Some("nlp")}
NameFilters == {NULL, Some(<<"b">>)}
Limits == 1..MaxLimit
Offsets == 0..MaxDirectory

\* the metadata of the agents of the directory
DirectoryMetadatas ==
    {Metadata(name, category, <<"1", ".", "0", ".", "0">>, NULL) :
        name \in Names \ {<<>>}, category \in Categories}

NextDirectory ==
    \/ \E metadata \in DirectoryMetadatas :
            Len(agents) < MaxDirectory /\ register_agent(metadata)
    \/ \E category \in CategoryFilters, name_pattern \in NameFilters,
          limit \in Limits, offset \in Offsets :
            search_agents(category, name_pattern, limit, offset)

DirectorySpec == Init /\ [][NextDirectory]_vars

----------------------------------------------------------------------------
(* The dispatcher over a Repository that does not fail, for task requests
   with and without a timeout of their own *)

NextTimeout ==
    \/ \E metadata \in Metadatas(Pricings), url \in Urls :
            Len(agents) < MaxAgents /\ register_agent_endpoint(metadata, url)
    \/ \E task_request \in TaskRequestsWith(Timeouts) :
            create_task(task_request, FALSE)
    \/ \E t \in DOMAIN tasks :
          \/ ExecStart(t, FALSE)
          \/ \E failure \in {NULL} \cup {Some(f) : f \in HttpFailures},
                body \in Bodies, execution_time \in ExecTimes :
                  ExecRespond(t, failure, body, execution_time, FALSE)
          \/ \E execution_time \in ExecTimes : ExecExcept(t, execution_time, FALSE)
          \/ StatsRead(t)
          \/ StatsWrite(t, FALSE)
          \/ StatsUpdate(t, FALSE)

TimeoutSpec == Init /\ [][NextTimeout]_vars

----------------------------------------------------------------------------
(* The dispatcher over a Repository that does not fail, for agents
   registered by the route and by register_agent_endpoint with any string
   as endpoint_url *)

\* values of the endpoint_url argument: a string, the empty one included
EndpointUrls == Urls \cup {""}

NextEndpoint ==
    \/ \E metadata \in Metadatas(Pricings) :
            Len(agents) < MaxAgents /\ register_agent(metadata)
    \/ \E metadata \in Metadatas(Pricings), url \in EndpointUrls :
            Len(agents) < MaxAgents /\ register_agent_endpoint(metadata, url)
    \/ \E task_request \in TaskRequests : create_task(task_request, FALSE)
    \/ \E t \in DOMAIN tasks :
          \/ ExecStart(t, FALSE)
          \/ \E failure \in {NULL} \cup {Some(f) : f \in HttpFailures},
                body \in Bodies, execution_time \in ExecTimes :
                  ExecRespond(t, failure, body, execution_time, FALSE)
          \/ \E execution_time \in ExecTimes : ExecExcept(t, execution_time, FALSE)
          \/ StatsRead(t)
          \/ StatsWrite(t, FALSE)
          \/ StatsUpdate(t, FALSE)

EndpointSpec == Init /\ [][NextEndpoint]_vars

----------------------------------------------------------------------------
(* Registration of every kind of valid metadata, followed by the dispatch of
   tasks over a Repository that does not fail *)

\* metadata that AgentMetadata and the name check accept
ValidMetadatas ==
    {Metadata(name, category, version, pricing) :
        name \in Names \ {<<>>}, category \in Categories,
        version \in {<<"1", ".", "0", ".", "0">>, <<"2", ".", "1", ".", "3">>},
        pricing \in {NULL, Pricing(Some("per_token"), Num(Int2Rat(1))),
                     Pricing(Some("per_minute"), Num(Int2Rat(MaxPrice)))}}

NextRoundTrip ==
    \/ \E metadata \in ValidMetadatas :
            Len(agents) < MaxAgents /\ register_agent(metadata)
    \/ \E metadata \in ValidMetadatas, url \in Urls :
            Len(agents) < MaxAgents /\ register_agent_endpoint(metadata, url)
    \/ \E task_request \in TaskRequests : create_task(task_request, FALSE)
    \/ \E t \in DOMAIN tasks :
          \/ ExecStart(t, FALSE)
          \/ \E failure \in {NULL} \cup {Some(f) : f \in HttpFailures},
                body \in Bodies, execution_time \in ExecTimes :
                  ExecRespond(t, failure, body, execution_time, FALSE)
          \/ \E execution_time \in ExecTimes : ExecExcept(t, execution_time, FALSE)
          \/ StatsRead(t)
          \/ StatsWrite(t, FALSE)
          \/ StatsUpdate(t, FALSE)

RoundTripSpec == Init /\ [][NextRoundTrip]_vars

----------------------------------------------------------------------------
(* Properties of the Task Ledger rows written by execute_task *)

TasksOf(agent_id) == {t \in DOMAIN tasks : tasks[t].agent_id = agent_id}

\* C1: once a task's stored status is completed or failed, no later write
\* changes its status, result, error or cost.
C1_TerminalIsFinal ==
    [][\A t \in DOMAIN tasks :
          tasks[t].status \in Terminal =>
              /\ tasks'[t].status = tasks[t].status
              /\ tasks'[t].result = tasks[t].result
              /\ tasks'[t].error = tasks[t].error
              /\ tasks'[t].cost = tasks[t].cost]_vars

\* C2: no task goes from pending directly to a terminal status; the status
\* stored after pending is running.
C2_RunningBeforeTerminal ==
    [][\A t \in DOMAIN tasks :
          tasks[t].status = "pending" =>
              tasks'[t].status \in {"pending", "running"}]_vars

\* C3: when all the executions for an agent have finished and every one of
\* them succeeded with the same execution time, the agent's total_tasks is
\* their number and its average_response_time is that time.
C3_NoLostUpdates ==
    \A a \in DOMAIN agents : \A execution_time \in ExecTimes :
        ( /\ TasksOf(a) # {}
          /\ \A t \in TasksOf(a) :
                /\ pc[t] = "done"
                /\ tasks[t].status = "completed"
                /\ tasks[t].execution_time = Some(execution_time) )
        => /\ agents[a].total_tasks = Cardinality(TasksOf(a))
           /\ agents[a].average_response_time = Int2Rat(execution_time)

\* C4: a completed task has a result, no error, a cost >= 0 and an
\* execution time >= 0.
C4_CompletedRow ==
    \A t \in DOMAIN tasks :
        tasks[t].status = "completed" =>
            /\ tasks[t].result # NULL
            /\ tasks[t].error = NULL
            /\ tasks[t].cost # NULL
            /\ Val(tasks[t].cost).kind = "number"
            /\ RLeq(Int2Rat(0), Val(tasks[t].cost).num)
            /\ tasks[t].execution_time # NULL
            /\ Val(tasks[t].execution_time) >= 0

\* C5: a failed task has an error, no result and no cost.
C5_FailedRow ==
    \A t \in DOMAIN tasks :
        tasks[t].status = "failed" =>
            /\ tasks[t].error # NULL
            /\ tasks[t].result = NULL
            /\ tasks[t].cost = NULL

\* an execution that ended with its task failed by a Repository error, and
\* a task failed by a timeout of the HTTP call
C5_Witness ==
    \E t \in DOMAIN tasks :
        /\ tasks[t].status = "failed"
        /\ tasks[t].error = Some(DbError)
        /\ pc[t] = "done"
        /\ \E u \in DOMAIN tasks :
              tasks[u].status = "failed" /\ tasks[u].error = Some("timeout")

\* C6: after N >= 1 sequential update_agent_stats calls on a new agent,
\* total_tasks is N, success_rate is successes / N and lies in [0, 1], and
\* average_response_time is the mean of the N execution times.
C6_RunningMeans ==
    \A a \in DOMAIN agents :
        recorded[a].n >= 1 =>
            /\ agents[a].total_tasks = recorded[a].n
            /\ agents[a].success_rate = Rat(recorded[a].succ, recorded[a].n)
            /\ RLeq(Int2Rat(0), agents[a].success_rate)
            /\ RLeq(agents[a].success_rate, Int2Rat(1))
            /\ agents[a].average_response_time = Rat(recorded[a].sum, recorded[a].n)

\* MaxCalls outcomes recorded, successes and failures mixed, times that differ
C6_Witness ==
    \E a \in DOMAIN agents :
        /\ recorded[a].n = MaxCalls
        /\ recorded[a].succ = 1
        /\ recorded[a].sum = MaxExecTime
        /\ agents[a].total_tasks = MaxCalls

\* C7: no exception leaves execute_task.
C7_NoEscape ==
    \A t \in DOMAIN tasks : pc[t] # "escaped"

\* C8: a background execution that has ended leaves its task completed or
\* failed, so every task is eventually terminal.
C8_EndedIsTerminal ==
    \A t \in DOMAIN tasks :
        pc[t] \in {"done", "escaped"} => tasks[t].status \in Terminal

----------------------------------------------------------------------------
(* Properties of the route handlers *)

\* C9: create_task for an agent id with no agent row answers 404, creates no
\* task row and schedules no execution.
C9_MissingAgentRejected ==
    [][( /\ response'.op = "create_task"
         /\ response'.agent_id \notin DOMAIN agents )
       => /\ response'.code = 404
          /\ tasks' = tasks
          /\ pc' = pc]_vars

\* a 404 answer to create_task while the task table holds a task
C9_Witness ==
    /\ response.op = "create_task"
    /\ response.code = 404
    /\ response.agent_id \notin DOMAIN agents
    /\ Len(tasks) >= 1

HasTaskId(item) == "task_id" \in DOMAIN item

HasError(item) == "error" \in DOMAIN item /\ "agent_id" \in DOMAIN item

\* C10: create_batch_tasks answers 200 with one item per request, in order:
\* an item with a task_id for a task it created (pending, scheduled) for an
\* existing agent, otherwise an error with the request's agent_id; the tasks
\* created are exactly the items with a task_id, appended to the table; when
\* db.create_task did not raise every request for an existing agent has one.
C10_BatchPerItem ==
    [][response'.op = "create_batch_tasks" /\ response' # response =>
        LET reqs  == response'.request
            items == response'.tasks
            ok    == {i \in DOMAIN items : HasTaskId(items[i])}
        IN  /\ response'.code = 200
            /\ Len(items) = Len(reqs)
            /\ response'.total = Len(reqs)
            /\ \A i \in DOMAIN items :
                  /\ HasTaskId(items[i]) # HasError(items[i])
                  /\ items[i].agent_id = reqs[i].agent_id
                  /\ reqs[i].agent_id \notin DOMAIN agents => HasError(items[i])
                  /\ HasTaskId(items[i]) =>
                        /\ items[i].task_id \in DOMAIN tasks' \ DOMAIN tasks
                        /\ tasks'[items[i].task_id].agent_id = reqs[i].agent_id
                        /\ tasks'[items[i].task_id].status = "pending"
                        /\ pc'[items[i].task_id] = "scheduled"
                  /\ (faults' = faults /\ reqs[i].agent_id \in DOMAIN agents)
                        => HasTaskId(items[i])
            /\ \A i, j \in ok : i < j => items[i].task_id < items[j].task_id
            /\ Len(tasks') = Len(tasks) + Cardinality(ok)
            /\ \A t \in DOMAIN tasks : tasks'[t] = tasks[t] /\ pc'[t] = pc[t]]_vars

\* a batch of two whose first request names a missing agent: item one carries
\* the error, item two the id of the task created after it
C10_Witness ==
    /\ response.op = "create_batch_tasks"
    /\ Len(response.tasks) = MaxBatch
    /\ HasError(response.tasks[1])
    /\ response.tasks[1].agent_id = MissingId
    /\ HasTaskId(response.tasks[MaxBatch])
    /\ Len(tasks) = MaxTasks

----------------------------------------------------------------------------
(* Properties of the dispatch of one task *)

\* the agent has no endpoint_url and no entry in registered_agents
Unreachable(a) ==
    agents[a].endpoint_url = NULL /\ ~InTable(a)

\* C11: for a task of an agent with no endpoint_url and no local entry, no
\* step issues the HTTP call, completes the task or sets a cost; and while no
\* Repository call has raised, the status only moves pending -> running ->
\* failed, the failure carries the no-endpoint error, the execution ends with
\* the task failed, and ending it folds one failed outcome into the agent's
\* statistics (total_tasks 1 and success_rate 0 when it is the only task).
C11_NoEndpointFails ==
    [][\A t \in DOMAIN tasks :
          LET a == tasks[t].agent_id
          IN  Unreachable(a) =>
                /\ pc'[t] # "http"
                /\ tasks'[t].status # "completed"
                /\ tasks'[t].cost = NULL
                /\ faults' = 0 =>
                      /\ \/ tasks'[t].status = tasks[t].status
                         \/ <<tasks[t].status, tasks'[t].status>> \in
                                {<<"pending", "running">>, <<"running", "failed">>}
                      /\ tasks'[t].status = "failed" =>
                            tasks'[t].error = Some(NoEndpoint)
                      /\ pc'[t] # "escaped"
                      /\ pc'[t] = "done" => tasks'[t].status = "failed"
                      /\ (pc'[t] = "done" /\ pc[t] # "done") =>
                            /\ recorded'[a].n = recorded[a].n + 1
                            /\ recorded'[a].succ = recorded[a].succ
                            /\ agents'[a].total_tasks >= 1
                            /\ TasksOf(a) = {t} =>
                                  /\ agents'[a].total_tasks = 1
                                  /\ agents'[a].success_rate = Int2Rat(0)]_vars

\* the execution for an agent that cannot be reached has ended: its task is
\* failed with the no-endpoint error and the agent counts one task, no success
C11_Witness ==
    \E t \in DOMAIN tasks :
        /\ Unreachable(tasks[t].agent_id)
        /\ faults = 0
        /\ pc[t] = "done"
        /\ tasks[t].status = "failed"
        /\ tasks[t].error = Some(NoEndpoint)
        /\ tasks[t].cost = NULL
        /\ agents[tasks[t].agent_id].total_tasks = 1
        /\ agents[tasks[t].agent_id].success_rate = Int2Rat(0)

----------------------------------------------------------------------------
(* Properties of update_task under arbitrary callers *)

\* C12: whatever arguments update_task is called with, no task row holds
\* both a non-null result and a non-null error.
C12_ResultXorError ==
    \A t \in DOMAIN tasks : ~(tasks[t].result # NULL /\ tasks[t].error # NULL)

\* C13: update_task with status completed or failed stamps completed_at
\* with the current time, and update_task with any other status leaves
\* completed_at as it was, on both backends.
C13_CompletedAtStamp ==
    [][response'.op = "db.update_task" =>
         LET t == response'.task_id
         IN  IF response'.status \in Terminal
             THEN tasks'[t].completed_at = Some(clock)
             ELSE tasks'[t].completed_at = tasks[t].completed_at]_vars

----------------------------------------------------------------------------
(* Properties of the Pricing Calculator *)

\* C14: for a pricing accepted by PricingModel (price >= 0) and an execution
\* time >= 0, calculate_task_cost returns price for fixed and per_request
\* whatever the execution time, price * execution_time / 60 for per_minute,
\* and 0 when the agent has no pricing.
C14_CostFormula ==
    ( /\ response.op = "calculate_task_cost"
      /\ response.pricing \in PricingModels \cup {NULL} )
    => LET pricing == response.pricing
           time    == response.execution_time
       IN  IF pricing = NULL
           THEN response.cost = Num(Int2Rat(0))
           ELSE LET price == Val(pricing).price.num
                    type  == Val(Val(pricing).type)
                IN  /\ type \in {"fixed", "per_request"} =>
                          response.cost = Num(price)
                    /\ type = "per_minute" =>
                          response.cost = Num(Rat(price[1] * time, 60 * price[2]))

\* per_minute pricing of MaxPrice = 60 for MaxExecTime = 30 seconds costs 30
C14_Witness ==
    /\ response.op = "calculate_task_cost"
    /\ response.pricing = Pricing(Some("per_minute"), Num(Int2Rat(MaxPrice)))
    /\ response.execution_time = MaxExecTime
    /\ response.cost = Num(Rat(MaxPrice * MaxExecTime, 60))

\* C15: for per_token pricing, with no token count among the inputs of the
\* calculation, the cost returned is not an amount: it is never a number
\* other than 0.
C15_PerTokenFailsClosed ==
    ( /\ response.op = "calculate_task_cost"
      /\ response.pricing \in PricingModels
      /\ Val(response.pricing).type = Some("per_token") )
    => ~( /\ response.cost.kind = "number"
          /\ response.cost.num # Int2Rat(0) )

\* the stored pricing of the agent of task t is malformed
Malformed(t) == agents[tasks[t].agent_id].pricing \in MalformedPricings

\* C16: with malformed pricing stored on the agent, a task whose invocation
\* succeeded is completed with cost 0: a completed task has cost 0, and a
\* task is failed only by a failure of the invocation itself.
C16_MalformedCostsZero ==
    \A t \in DOMAIN tasks :
        Malformed(t) =>
            /\ tasks[t].status = "completed" =>
                    tasks[t].cost = Some(Num(Int2Rat(0)))
            /\ tasks[t].status = "failed" =>
                    tasks[t].error \in {Some(f) : f \in HttpFailures}

----------------------------------------------------------------------------
(* Properties of the Agent Directory *)

\* the ids of S by descending reliability_score, equal scores by ascending
\* id, which is the order of registration
RECURSIVE InsertionOrder(_)
InsertionOrder(S) ==
    IF S = {} THEN <<>>
    ELSE LET first == CHOOSE a \in S : \A b \in S :
                          \/ agents[a].reliability_score > agents[b].reliability_score
                          \/ /\ agents[a].reliability_score = agents[b].reliability_score
                             /\ a <= b
         IN  <<first>> \o InsertionOrder(S \ {first})

\* C17: search_agents returns only active agents that satisfy every filter
\* supplied, the page being the slice [offset, offset + limit) of the
\* matching agents by descending reliability_score, ties in order of
\* registration; the pages of a run of successive offsets are disjoint and
\* together are the prefix of that order.
C17_SearchPages ==
    response.op = "search_agents" =>
        LET matching == {a \in DOMAIN agents :
                            /\ agents[a].status = "active"
                            /\ response.category # NULL =>
                                  agents[a].category = Val(response.category)
                            /\ response.name_pattern # NULL =>
                                  Like(agents[a].name, Val(response.name_pattern))}
            full  == InsertionOrder(matching)
            pages == response.before \o response.agents
        IN  /\ \A i \in DOMAIN response.agents : response.agents[i] \in matching
            /\ response.agents =
                  LimitOffset(full, response.limit, response.offset)
            /\ response.from_start =>
                  /\ \A i, j \in DOMAIN pages : i # j => pages[i] # pages[j]
                  /\ pages = SubSeq(full, 1, Len(pages))

\* the metadata has an empty name or a version that is not three numeric
\* parts separated by dots
Invalid(metadata) ==
    \/ metadata.name = <<>>
    \/ LET parts == Split(metadata.version, <<>>)
       IN  ~( /\ Len(parts) = 3
              /\ \A i \in DOMAIN parts : IsDigit(parts[i]) )

\* C18: a registration whose metadata has an empty name or a version that
\* is not three numeric dot-separated parts (the empty version included) is
\* answered with an error (422 from the validator, or the error the name
\* check of the handler ends in) and adds no agent row.
C18_InvalidRejected ==
    [][( /\ response'.op \in {"register_agent", "register_agent_endpoint"}
         /\ Invalid(response'.metadata) )
       => /\ "code" \in DOMAIN response'
          /\ response'.code \in {400, 422, 500}
          /\ agents' = agents]_vars

\* the fields of an agent that registration stores from the metadata
Stored(row) ==
    Metadata(row.name, row.category, row.version, row.pricing)

----------------------------------------------------------------------------
(* Properties of the HTTP call *)

\* C20: the HTTP client of an execution is bounded by the timeout of its
\* task request when the request names one, and by 30 otherwise.
C20_TaskTimeout ==
    \A t \in DOMAIN frame :
        frame[t].client_timeout # NULL =>
            frame[t].client_timeout =
                IF frame[t].task_request.timeout # NULL
                THEN frame[t].task_request.timeout
                ELSE Some(DefaultTimeout)

----------------------------------------------------------------------------
(* Properties of the scheduling of executions *)

\* the executions scheduled for the task row task_id
ExecutionsOf(task_id) == {e \in DOMAIN frame : frame[e].task_id = task_id}

\* C21: every task row has exactly one scheduled execution; a step that
\* changes a task row is a step of that execution; an execution sends at
\* most one POST, and none once its task is completed or failed.
C21_SingleAttempt ==
    [][ /\ \A k \in DOMAIN tasks' : Cardinality(ExecutionsOf(k)') = 1
        /\ \A k \in DOMAIN tasks :
              tasks'[k] # tasks[k] =>
                  \E e \in ExecutionsOf(k) : pc'[e] # pc[e]
        /\ \A e \in DOMAIN frame :
              /\ frame'[e].posts <= 1
              /\ tasks[frame[e].task_id].status \in Terminal =>
                    frame'[e].posts = frame[e].posts
      ]_vars

\* two executions are over, each after one POST: one left its task failed
\* by a failure of the HTTP call, the other left its task completed
C21_Witness ==
    \E e, f \in DOMAIN frame :
        /\ pc[e] = "done" /\ pc[f] = "done"
        /\ frame[e].posts = 1 /\ frame[f].posts = 1
        /\ tasks[frame[e].task_id].status = "failed"
        /\ tasks[frame[e].task_id].error = Some("http status error")
        /\ tasks[frame[f].task_id].status = "completed"

----------------------------------------------------------------------------
(* The SDK alone *)

BuilderSpec == Init /\ [][NextBuilder]_vars

\* C22: validate() returns True exactly when a set_metadata call has
\* returned and an endpoint has been stored, whatever the order of the
\* calls, and raises ValueError otherwise; registry.register_agent posts a
\* registration only for a builder that validates.
C22_ValidateGate ==
    [][ /\ response'.op = "validate" =>
              /\ response'.result = "True" <=>
                    (builder.has_metadata /\ builder.has_endpoint)
              /\ response'.result # "True" =>
                    response'.result = "ValueError"
        /\ builder'.sent # builder.sent =>
              /\ response'.op = "registry.register_agent"
              /\ builder.has_metadata /\ builder.has_endpoint
              /\ builder'.sent = Append(builder.sent, Val(builder.metadata))
        /\ ( /\ response'.op = "registry.register_agent"
             /\ ~(builder.has_metadata /\ builder.has_endpoint) )
           => /\ builder'.sent = builder.sent
              /\ response'.result = "ValueError"
      ]_vars

\* a registration was posted for a builder whose metadata was set before
\* its endpoint was stored
C22_Witness ==
    /\ response.op = "registry.register_agent"
    /\ response.result = "True"
    /\ Len(builder.sent) = 1
    /\ builder.metadata # NULL
    /\ Val(builder.metadata).endpoints = {}
    /\ builder.endpoints # {}

----------------------------------------------------------------------------
(* The routes behind get_current_user *)

NextAuth ==
    \/ \E api_key \in ApiKeyValues : create_user(api_key)
    \/ \E route \in Routes, credentials \in Credentials :
            Receive(route, credentials)
    \/ \E metadata \in Metadatas(Pricings) :
            /\ Admitted("register_agent")
            /\ Len(agents) < MaxAgents
            /\ register_agent(metadata)
    \/ \E task_request \in TaskRequests :
            Admitted("create_task") /\ create_task(task_request, FALSE)
    \/ \E reqs \in BatchRequests :
            Admitted("create_batch_tasks") /\ create_batch_tasks(reqs, {})

AuthSpec == AuthInit /\ [][NextAuth]_vars

\* C23: with require_auth, a request to register_agent, create_task or
\* create_batch_tasks without credentials, or with a key of no user, is
\* answered 401 and is not handed to the handler; agent rows, task rows and
\* executions are created only by the handler of a route whose request
\* carried the key of a user.
C23_AuthGate ==
    [][ /\ ( /\ auth.require_auth
             /\ response'.op = "get_current_user"
             /\ \/ response'.credentials = NULL
                \/ Val(response'.credentials) \notin auth.users )
           => /\ response'.code = 401
              /\ auth' = auth
              /\ agents' = agents /\ tasks' = tasks
              /\ pc' = pc /\ frame' = frame
        /\ ( /\ auth.require_auth
             /\ agents' # agents \/ tasks' # tasks \/ pc' # pc \/ frame' # frame )
           => /\ auth.admitted # NULL
              /\ Val(auth.admitted).route = response'.op
              /\ Val(auth.admitted).credentials # NULL
              /\ Val(Val(auth.admitted).credentials) \in auth.users
      ]_vars

\* with require_auth and a user in table users, a request with the key of
\* no user was answered 401 while a task created for an admitted request
\* is in the table
C23_Witness ==
    /\ auth.require_auth
    /\ auth.users # {}
    /\ response.op = "get_current_user"
    /\ response.code = 401
    /\ response.credentials # NULL
    /\ Len(tasks) >= 1

----------------------------------------------------------------------------
(* Properties that relate the Task Ledger and the agent statistics *)

\* the tasks of agent_id whose stored status is completed or failed
TerminalTasksOf(agent_id) ==
    {t \in TasksOf(agent_id) : tasks[t].status \in Terminal}

\* C24: the statistics of an agent change only in a step of an execution
\* whose task already has a terminal status, and the agent's total_tasks
\* never exceeds the number of its completed or failed tasks.
C24_StatsAfterTerminal ==
    [][\A a \in DOMAIN agents :
          /\ agents'[a].total_tasks <= Cardinality(TerminalTasksOf(a)')
          /\ StatsOf(agents'[a]) # StatsOf(agents[a]) =>
                \E e \in DOMAIN frame :
                    /\ pc'[e] # pc[e]
                    /\ tasks[frame[e].task_id].agent_id = a
                    /\ tasks[frame[e].task_id].status \in Terminal]_vars

\* the statistics hold one task of an agent while a second task of the
\* agent is terminal and its update_agent_stats has not run yet
C24_Witness ==
    \E a \in DOMAIN agents :
        /\ agents[a].total_tasks = 1
        /\ Cardinality(TerminalTasksOf(a)) = 2
        /\ \E t \in TasksOf(a) : pc[t] \in {"stats_ok", "stats_err"}

\* no execute_task is between its first statement and its end
Quiescent == \A t \in DOMAIN pc : pc[t] \in {"scheduled", "done", "escaped"}

\* C25: when no execution is in progress, every agent's total_tasks is the
\* number of its completed or failed tasks and success_rate * total_tasks
\* is the number of its completed tasks.
C25_QuiescentAgreement ==
    Quiescent =>
        \A a \in DOMAIN agents :
            /\ agents[a].total_tasks = Cardinality(TerminalTasksOf(a))
            /\ RMul(agents[a].success_rate, Int2Rat(agents[a].total_tasks)) =
                  Int2Rat(Cardinality({t \in TasksOf(a) :
                                          tasks[t].status = "completed"}))

\* C26: update_agent_stats for an id with no agent row raises nothing and
\* changes no agent row and no task row.
C26_MissingAgentStats ==
    [][( /\ response'.op = "update_agent_stats"
         /\ response'.agent_id \notin DOMAIN agents )
       => /\ response'.raised = NULL
          /\ agents' = agents
          /\ tasks' = tasks]_vars

\* update_agent_stats was called for an id with no agent row while an
\* agent has statistics and a task is completed
C26_Witness ==
    /\ response.op = "update_agent_stats"
    /\ response.agent_id \notin DOMAIN agents
    /\ \E a \in DOMAIN agents : agents[a].total_tasks >= 1
    /\ \E t \in DOMAIN tasks :
          tasks[t].status = "completed" /\ tasks[t].cost # NULL

----------------------------------------------------------------------------
(* Properties of the endpoint resolution *)

\* C27: the POST of an execution goes to the endpoint_url of the agent row
\* when the row has one, whether or not registered_agents has an entry for
\* the agent, and otherwise, for an agent in registered_agents, to the
\* endpoint recorded in its entry.
C27_EndpointResolution ==
    \A e \in DOMAIN frame :
        frame[e].url # NULL =>
            LET a == tasks[frame[e].task_id].agent_id
            IN  IF ~Falsy(agents[a].endpoint_url)
                THEN frame[e].url = agents[a].endpoint_url
                ELSE InTable(a) => frame[e].url = Entry(a).endpoint_url

----------------------------------------------------------------------------
(* Referential integrity of the tables tasks and agents *)

\* C28: the agent_id of every task row is the id of an agent row, and no
\* step removes an agent row.
C28_TasksReferToAgents ==
    [][ /\ \A t \in DOMAIN tasks' : SelectAgent(agents', tasks'[t].agent_id) # NULL
        /\ \A a \in DOMAIN agents : SelectAgent(agents', a) # NULL ]_vars

\* delete_agent has answered for an agent that MaxTasks tasks refer to
C28_Witness ==
    /\ response.op = "delete_agent"
    /\ response.code = 200
    /\ Cardinality(TasksOf(response.agent_id)) = MaxTasks

----------------------------------------------------------------------------
(* Properties of the pricing of an AgentBuilder *)

\* C29: set_pricing without metadata stores the model, and a following
\* set_metadata whose dictionary has no key "pricing" succeeds with that
\* model as its pricing; set_pricing with metadata replaces
\* metadata.pricing.
C29_PricingAnyOrder ==
    [][ /\ ( /\ response'.op = "set_pricing"
             /\ response'.raised = NULL )
           => IF builder.metadata = NULL
              THEN builder'.pending_pricing = response'.pricing_model
              ELSE Val(builder'.metadata).pricing = Val(response'.pricing_model)
        /\ ( /\ response'.op = "set_metadata"
             /\ response'.metadata.name # ""
             /\ response'.metadata.pricing = NULL
             /\ builder.metadata = NULL
             /\ builder.pending_pricing # NULL )
           => /\ response'.raised = NULL
              /\ builder'.metadata # NULL
              /\ Val(builder'.metadata).pricing = Val(builder.pending_pricing)
      ]_vars

----------------------------------------------------------------------------
(* The ACPServerManager alone *)

ManagerSpec == Init /\ [][NextManager]_vars

\* C30: when no call of the manager is in progress, used_ports is the set
\* of the ports of the entries of active_servers, and different entries
\* have different ports.
C30_PortPool ==
    manager.creating = {} =>
        /\ manager.used_ports = {e.port : e \in manager.active_servers}
        /\ \A e, f \in manager.active_servers : e.port = f.port => e = f

====
